---- MODULE Spec2Model ----
(***************************************************************************)
(* English to Tengwar / Black Speech transliteration                       *)
(* (src/english_to_tengwar.py).                                            *)
(*                                                                         *)
(* A Python string is modelled as a sequence of characters.  A character   *)
(* is a one-character TLA+ string for printable ASCII (and "\n", "\t");    *)
(* the backtick and every non-ASCII character is written by its code       *)
(* point, e.g. "U+0060" for the backtick and "U+00E9" for e-acute.         *)
(***************************************************************************)
EXTENDS Integers, Sequences, FiniteSets, TLC

(***************************************************************************)
(* Strings                                                                 *)
(***************************************************************************)

\* The characters of an ASCII literal, as a sequence of characters.
S(s) == [k \in 1..Len(s) |-> SubSeq(s, k, k)]

Range(s) == {s[k] : k \in DOMAIN s}

\* The backtick character, which the glyph tables use for the carrier.
GRAVE == "U+0060"

\* s[a:] and s[:b] of Python, for 0 <= a, b <= len(s).
From(s, a) == SubSeq(s, (IF a < Len(s) THEN a ELSE Len(s)) + 1, Len(s))
Upto(s, b) == SubSeq(s, 1, IF b < Len(s) THEN b ELSE Len(s))

\* s.endswith(p)
EndsWith(s, p) == Len(s) >= Len(p) /\ SubSeq(s, Len(s) - Len(p) + 1, Len(s)) = p

\* p in s, for strings p and s.
Contains(s, p) == \E k \in 0..(Len(s) - Len(p)) : SubSeq(s, k + 1, k + Len(p)) = p

\* s.replace(old, new, count): the leftmost non-overlapping occurrences of a
\* non-empty old, at most count of them (count = -1: all of them).
RECURSIVE Replace(_, _, _, _)
Replace(s, old, new, count) ==
    IF count = 0 \/ Len(s) < Len(old) THEN s
    ELSE LET hit == SubSeq(s, 1, Len(old)) = old
         IN  (IF hit THEN new ELSE <<s[1]>>)
                 \o Replace(From(s, IF hit THEN Len(old) ELSE 1), old, new,
                            IF hit /\ count > 0 THEN count - 1 ELSE count)

ReplaceAll(s, old, new) == Replace(s, old, new, -1)

\* sep.join(list)
RECURSIVE Join(_, _)
Join(sep, list) ==
    IF Len(list) = 0 THEN <<>>
    ELSE IF Len(list) = 1 THEN list[1]
    ELSE list[1] \o sep \o Join(sep, Tail(list))

\* "".join(list)
Concat(list) == Join(<<>>, list)

(***************************************************************************)
(* Character classes of str and re                                         *)
(***************************************************************************)

AsciiLower == S("abcdefghijklmnopqrstuvwxyz")
AsciiUpper == S("ABCDEFGHIJKLMNOPQRSTUVWXYZ")
AsciiDigits == S("0123456789")

\* Letters outside a-z that the model knows: e-acute, E-acute, and the
\* circumflex vowels of the Black Speech dictionary.
AccentedLower == <<"U+00E9", "U+00FB", "U+00E2", "U+00EE">>
AccentedUpper == <<"U+00C9", "U+00DB", "U+00C2", "U+00CE">>

IndexOf(c, s) == CHOOSE k \in DOMAIN s : s[k] = c

\* c.isalpha(), c.isdigit(), c.isspace() of one character
char_isalpha(c) == c \in Range(AsciiLower) \cup Range(AsciiUpper)
                        \cup Range(AccentedLower) \cup Range(AccentedUpper)
char_isdigit(c) == c \in Range(AsciiDigits)
char_isspace(c) == c \in {" ", "\n", "\t"}

\* c.lower() of one character
char_lower(c) ==
    IF c \in Range(AsciiUpper) THEN AsciiLower[IndexOf(c, AsciiUpper)]
    ELSE IF c \in Range(AccentedUpper) THEN AccentedLower[IndexOf(c, AccentedUpper)]
    ELSE c

\* s.lower(), s.isalpha(), s.isdigit(), s.strip() == ""
lower(s) == [k \in DOMAIN s |-> char_lower(s[k])]
isalpha(s) == Len(s) > 0 /\ \A k \in DOMAIN s : char_isalpha(s[k])
isdigit(s) == Len(s) > 0 /\ \A k \in DOMAIN s : char_isdigit(s[k])
strip_is_empty(s) == \A k \in DOMAIN s : char_isspace(s[k])

\* \w of re: a letter, a digit or the underscore; [^\W_]: \w without "_".
re_word(c) == char_isalpha(c) \/ char_isdigit(c) \/ c = "_"
re_alnum(c) == re_word(c) /\ c # "_"

(***************************************************************************)
(* Static tables                                                           *)
(***************************************************************************)

\* A dict literal or dict(zip(...)): of two entries with the same key the
\* later one stays.
DictOf(pairs) ==
    [key \in {pairs[k][1] : k \in DOMAIN pairs} |->
        LET last == CHOOSE k \in DOMAIN pairs :
                        /\ pairs[k][1] = key
                        /\ \A m \in DOMAIN pairs : pairs[m][1] = key => m <= k
        IN  pairs[last][2]]

\* dictzip(str1, str2): str1[k] -> str2[k]; the code asserts equal lengths.
dictzip(str1, str2) == DictOf([k \in DOMAIN str1 |-> <<str1[k], str2[k]>>])

BlackSpeechDictionaryLiteral ==
    << <<S("one"), S("ash")>>,
       <<S("ring"), S("nazg")>>,
       <<S("to"), <<>>>>,
       <<S("rule"), S("gimbatul")>>,
       <<S("them"), S("agh")>>,
       <<S("all"), S("burzum-ishi")>>,
       <<S("and"), S("agh")>>,
       <<S("in"), <<>>>>,
       <<S("the"), <<>>>>,
       <<S("of"), <<>>>>,
       <<S("darkness"), S("burzum")>>,
       <<S("bind"), S("krimpatul")>>,
       <<S("lord"), S("uzbad")>>,
       <<S("master"), S("uzbad")>>,
       <<S("king"), S("uzbad")>>,
       <<S("fire"), S("gabil")>>,
       <<S("flame"), S("gabil")>>,
       <<S("shadow"), S("glob")>>,
       <<S("dark"), S("burzum")>>,
       <<S("black"), S("morn")>>,
       <<S("death"), S("g") \o <<"U+00FB">> \o S("l")>>,
       <<S("evil"), S("g") \o <<"U+00FB">> \o S("l")>>,
       <<S("mountain"), S("gundu")>>,
       <<S("tower"), S("barad")>>,
       <<S("fortress"), S("barad")>>,
       <<S("iron"), S("ang")>>,
       <<S("steel"), S("ang")>>,
       <<S("sword"), S("gurth")>>,
       <<S("blade"), S("gurth")>>,
       <<S("hand"), S("gabil")>>,
       <<S("eye"), S("lugburz")>>,
       <<S("power"), S("gash")>>,
       <<S("strength"), S("gash")>>,
       <<S("great"), S("uruk")>>,
       <<S("mighty"), S("uruk")>>,
       <<S("servant"), S("olog")>>,
       <<S("slave"), S("snaga")>>,
       <<S("come"), S("g") \o <<"U+00FB">>>>,
       <<S("go"), S("g") \o <<"U+00FB">>>>,
       <<S("bring"), S("thurkh")>>,
       <<S("take"), S("thurkh")>>,
       <<S("kill"), S("agh")>>,
       <<S("destroy"), S("agh")>>,
       <<S("burn"), S("gabil")>>,
       <<S("break"), S("krith")>>,
       <<S("mine"), S("khaz")>>,
       <<S("gold"), S("khaz")>>,
       <<S("treasure"), S("khaz")>>,
       <<S("doom"), S("d") \o <<"U+00FB">> \o S("m")>>,
       <<S("fate"), S("d") \o <<"U+00FB">> \o S("m")>>,
       <<S("war"), S("gabil")>>,
       <<S("battle"), S("gabil")>>,
       <<S("blood"), S("g") \o <<"U+00FB">>>>,
       <<S("pain"), S("gash")>>,
       <<S("fear"), S("g") \o <<"U+00FB">> \o S("l")>>,
       <<S("terror"), S("g") \o <<"U+00FB">> \o S("l")>>,
       <<S("hate"), S("goth")>>,
       <<S("anger"), S("goth")>>,
       <<S("wrath"), S("goth")>>,
       <<S("sorrow"), S("nuin")>>,
       <<S("grief"), S("nuin")>>,
       <<S("stone"), S("khaz")>>,
       <<S("earth"), S("khaz")>>,
       <<S("ground"), S("khaz")>>,
       <<S("sky"), S("menel")>>,
       <<S("star"), S("gil")>>,
       <<S("moon"), S("ithil")>>,
       <<S("sun"), S("anor")>>,
       <<S("light"), S("gal")>>,
       <<S("water"), S("nen")>>,
       <<S("river"), S("nen")>>,
       <<S("sea"), S("gaer")>>,
       <<S("wind"), S("gwaih")>>,
       <<S("storm"), S("gwaih")>>,
       <<S("thunder"), S("gabil")>>,
       <<S("lightning"), S("gabil")>>,
       <<S("cold"), S("ring")>>,
       <<S("ice"), S("ring")>>,
       <<S("snow"), S("ring")>>,
       <<S("hot"), S("gabil")>>,
       <<S("warm"), S("gabil")>>,
       <<S("big"), S("uruk")>>,
       <<S("large"), S("uruk")>>,
       <<S("huge"), S("uruk")>>,
       <<S("small"), S("snaga")>>,
       <<S("little"), S("snaga")>>,
       <<S("tiny"), S("snaga")>>,
       <<S("good"), S("g") \o <<"U+00E2">> \o S("l")>>,
       <<S("bad"), S("g") \o <<"U+00FB">> \o S("l")>>,
       <<S("beautiful"), S("g") \o <<"U+00E2">> \o S("l")>>,
       <<S("ugly"), S("goth")>>,
       <<S("strong"), S("gash")>>,
       <<S("weak"), S("snaga")>>,
       <<S("fast"), S("thurkh")>>,
       <<S("slow"), S("glob")>>,
       <<S("high"), S("barad")>>,
       <<S("low"), S("glob")>>,
       <<S("far"), S("ungol")>>,
       <<S("near"), S("g") \o <<"U+00FB">>>>,
       <<S("old"), S("iaur")>>,
       <<S("new"), S("shin")>>,
       <<S("young"), S("shin")>>,
       <<S("dead"), S("g") \o <<"U+00FB">> \o S("l")>>,
       <<S("alive"), S("cuio")>>,
       <<S("born"), S("no")>>,
       <<S("die"), S("g") \o <<"U+00FB">> \o S("l")>>,
       <<S("live"), S("cuio")>>,
       <<S("eat"), S("gor")>>,
       <<S("drink"), S("s") \o <<"U+00FB">> \o S("l")>>,
       <<S("sleep"), S("l") \o <<"U+00FB">> \o S("th")>>,
       <<S("wake"), S("daw")>>,
       <<S("speak"), S("lam")>>,
       <<S("hear"), S("lasta")>>,
       <<S("see"), S("t") \o <<"U+00EE">> \o S("r")>>,
       <<S("know"), S("ista")>>,
       <<S("think"), S("saed")>>,
       <<S("remember"), S("min")>>,
       <<S("forget"), S("delu")>>,
       <<S("love"), S("mel")>>,
       <<S("like"), S("mel")>>,
       <<S("want"), S("min")>>,
       <<S("need"), S("bane")>>,
       <<S("have"), S("har")>>,
       <<S("give"), S("anno")>>,
       <<S("receive"), S("goth")>>,
       <<S("find"), S("hir")>>,
       <<S("lose"), S("delu")>>,
       <<S("win"), S("tuv")>>,
       <<S("lose"), S("delu")>>,
       <<S("begin"), S("edra")>>,
       <<S("end"), S("teith")>>,
       <<S("stop"), S("dar")>>,
       <<S("continue"), S("minno")>>,
       <<S("change"), S("wend")>>,
       <<S("stay"), S("dar")>>,
       <<S("move"), S("minno")>>,
       <<S("run"), S("thurkh")>>,
       <<S("walk"), S("minno")>>,
       <<S("fly"), S("gwaih")>>,
       <<S("fall"), S("dant")>>,
       <<S("rise"), S("orch")>>,
       <<S("climb"), S("orch")>>,
       <<S("jump"), S("cab")>>,
       <<S("swim"), S("luin")>>,
       <<S("work"), S("bane")>>,
       <<S("rest"), S("l") \o <<"U+00FB">> \o S("th")>>,
       <<S("play"), S("telu")>>,
       <<S("fight"), S("gabil")>>,
       <<S("attack"), S("dagr")>>,
       <<S("defend"), S("thang")>>,
       <<S("escape"), S("rhosg")>>,
       <<S("hide"), S("thurin")>>,
       <<S("show"), S("tol")>>,
       <<S("open"), S("edra")>>,
       <<S("close"), S("thar")>>,
       <<S("build"), S("thang")>>,
       <<S("destroy"), S("agh")>>,
       <<S("create"), S("caro")>>,
       <<S("make"), S("caro")>>,
       <<S("repair"), S("aeg")>>,
       <<S("break"), S("krith")>>,
       <<S("cut"), S("risk")>>,
       <<S("join"), S("gwedh")>>,
       <<S("separate"), S("palan")>>,
       <<S("mix"), S("gwaed")>>,
       <<S("clean"), S("glan")>>,
       <<S("dirty"), S("goth")>>,
       <<S("wash"), S("luin")>>,
       <<S("wear"), S("gwann")>>,
       <<S("remove"), S("eitha")>>,
       <<S("put"), S("gwaed")>>,
       <<S("place"), S("gwaed")>>,
       <<S("turn"), S("hwinion")>>,
       <<S("push"), S("thaur")>>,
       <<S("pull"), S("gwedh")>>,
       <<S("lift"), S("orgon")>>,
       <<S("drop"), S("dant")>>,
       <<S("throw"), S("hab")>>,
       <<S("catch"), S("rap")>>,
       <<S("hold"), S("gabil")>>,
       <<S("release"), S("leithia")>>,
       <<S("touch"), S("lav")>>,
       <<S("hit"), S("dagr")>>,
       <<S("kick"), S("dag")>>,
       <<S("bite"), S("nasg")>>,
       <<S("scratch"), S("rasc")>>,
       <<S("burn"), S("gabil")>>,
       <<S("freeze"), S("ring")>>,
       <<S("melt"), S("thaw")>>,
       <<S("boil"), S("gabil")>>,
       <<S("cook"), S("gabil")>>,
       <<S("raw"), S("glass")>>,
       <<S("ripe"), S("beren")>>,
       <<S("rotten"), S("goth")>>,
       <<S("sharp"), S("maeg")>>,
       <<S("dull"), S("thind")>>,
       <<S("smooth"), S("balan")>>,
       <<S("rough"), S("gaern")>>,
       <<S("hard"), S("sarn")>>,
       <<S("soft"), S("lind")>>,
       <<S("heavy"), S("luin")>>,
       <<S("light"), S("gal")>>,
       <<S("thick"), S("tiugh")>>,
       <<S("thin"), S("nim")>>,
       <<S("wide"), S("palan")>>,
       <<S("narrow"), S("aeg")>>,
       <<S("deep"), S("nunn")>>,
       <<S("shallow"), S("taw")>>,
       <<S("empty"), S("lhaw")>>,
       <<S("full"), S("bell")>>,
       <<S("wet"), S("n") \o <<"U+00EE">> \o S("n")>>,
       <<S("dry"), S("r") \o <<"U+00FB">>>>,
       <<S("clean"), S("glan")>>,
       <<S("dirty"), S("gorth")>> >>

BlackSpeechPhoneticsLiteral ==
    << <<S("c"), S("k")>>,
       <<S("soft_g"), S("gh")>>,
       <<S("th"), S("thr")>>,
       <<S("ph"), S("f")>>,
       <<S("ch"), S("kh")>>,
       <<S("sh"), S("shr")>>,
       <<S("j"), S("zh")>>,
       <<S("qu"), S("kw")>>,
       <<S("x"), S("ks")>>,
       <<S("tion"), S("zhon")>>,
       <<S("sion"), S("zhon")>> >>

VoicedThPrefices ==
    << S("their"),
       S("these"),
       S("those"),
       S("although"),
       S("them"),
       S("thine"),
       S("thy"),
       S("thou"),
       S("there") >>

VoicedThSpecialPrefices ==
    << S("thither") >>

VoicedThSoloPrefices ==
    << S("that"),
       S("this"),
       S("than"),
       S("they"),
       S("thee"),
       S("though") >>

VoicedThAlwaysSafe ==
    << S("feather"),
       S("together"),
       S("bathing"),
       S("bathe"),
       S("father"),
       S("mother"),
       S("clothing"),
       S("clothe"),
       S("brother"),
       S("weather"),
       S("either"),
       S("gather"),
       S("other"),
       S("another"),
       S("worthy"),
       S("rather"),
       S("soothing"),
       S("soothe"),
       S("smooth"),
       S("leather"),
       S("tether"),
       S("breathe"),
       S("breathing"),
       S("lathe"),
       S("seethe"),
       S("seething"),
       S("scathe"),
       S("scathing"),
       S("teethe"),
       S("teething"),
       S("loath"),
       S("loathing"),
       S("neither"),
       S("thence"),
       S("rhythm"),
       S("slither"),
       S("southern"),
       S("bother"),
       S("altogether"),
       S("lather"),
       S("hither") >>

PunctuationLiteral ==
    << <<S("."), S("-")>>,
       <<S(","), <<"U+00B7">>>>,
       <<S("!"), <<"U+00C1">>>>,
       <<S("?"), <<"U+00C0">>>>,
       <<S(";"), <<"U+00C3">>>>,
       <<S("\""), <<"U+00BB">>>>,
       <<S("'"), <<"U+00B2">>>>,
       <<S("_"), <<"U+00B7">>>>,
       <<S("-"), <<"U+00B7">>>>,
       <<<<"U+0060">>, <<"U+00B1">>>>,
       <<S(":"), S("-")>>,
       <<S("/"), <<"U+203A">>>>,
       <<S("\\"), <<"U+203A">>>>,
       <<S("<"), <<"U+0152">>>>,
       <<S(">"), <<"U+0153">>>>,
       <<S("["), <<"U+0152">>>>,
       <<S("]"), <<"U+0153">>>>,
       <<S("{"), <<"U+0152">>>>,
       <<S("}"), <<"U+0153">>>>,
       <<S("("), <<"U+0152">>>>,
       <<S(")"), <<"U+0153">>>>,
       <<S("@"), S("1E")>>,
       <<S("#"), S("9dE1x#")>>,
       <<S("$"), S("k") \o <<"U+00A1">>>>,
       <<S("%"), S("q6R85$1")>>,
       <<S("^"), S("z7D1R")>>,
       <<S("&"), S("5#2")>>,
       <<S("*"), <<"U+02C6">>>>,
       <<S("="), <<"U+00AC">>>>,
       <<S("+"), <<"U+0060">> \o S(" ") \o <<"U+00B0">>>>,
       <<S("|"), <<"U+00BD">>>>,
       <<S(" "), S(" ")>>,
       <<S("\n"), S("\n")>>,
       <<S("\t"), <<"U+00B7">> \o S("-") \o <<"U+00B7">>>> >>

DoublesLiteral ==
    << <<S("sh"), S("d")>>,
       <<S("zh"), S("f")>>,
       <<S("ch"), S("a")>>,
       <<S("Ch"), S("a")>>,
       <<S("ph"), S("e")>>,
       <<S("kh"), S("c")>>,
       <<S("gh"), S("v")>>,
       <<S("wh"), S("o")>>,
       <<S("ng"), S("b")>>,
       <<S("rd"), S("u")>>,
       <<S("ld"), S("m")>>,
       <<S("th"), S("3")>>,
       <<S("TH"), S("4")>> >>

VowelSeriesLiteral ==
    << <<"a", S("#EDC")>>,
       <<"e", S("$RFV")>>,
       <<"i", S("%TGB")>>,
       <<"o", S("^YHN")>>,
       <<"u", S("&UJM")>>,
       <<"y", <<"U+00D8">> \o <<"U+00D9">> \o <<"U+00DA">> \o <<"U+00DB">>>> >>

Vowels == S("#EDC$RFV%TGB^YHN&UJM")

VowelsForConsonantsLiteral ==
    << <<"U+0060", 3>>,
       <<"~", 3>>,
       <<"1", 1>>,
       <<"q", 1>>,
       <<"a", 2>>,
       <<"z", 2>>,
       <<"2", 0>>,
       <<"w", 0>>,
       <<"s", 0>>,
       <<"x", 0>>,
       <<"3", 2>>,
       <<"e", 2>>,
       <<"d", 1>>,
       <<"c", 1>>,
       <<"4", 0>>,
       <<"r", 0>>,
       <<"f", 0>>,
       <<"v", 0>>,
       <<"5", 0>>,
       <<"t", 0>>,
       <<"g", 0>>,
       <<"b", 0>>,
       <<"6", 1>>,
       <<"y", 1>>,
       <<"h", 2>>,
       <<"n", 2>>,
       <<"7", 2>>,
       <<"u", 2>>,
       <<"j", 0>>,
       <<"m", 0>>,
       <<"i", 2>>,
       <<",", 2>>,
       <<"9", 3>>,
       <<"o", 0>>,
       <<"l", 2>>,
       <<".", 2>> >>

ConsonantLetters == S("tdnrRhpbfvmwsj--lYkg-z-")
ConsonantGlyphs == S("125679qwertyisghjlzxn,.")

short_carrier == GRAVE
carrier == short_carrier
long_carrier == "~"

VARIABLES
    \* the module-level tables
    black_speech_dictionary, black_speech_phonetics,
    voiced_th_prefices, voiced_th_special_prefices,
    voiced_th_solo_prefices, voiced_th_always_safe,
    punctuation, consonants, doubles, vowel_series, vowels,
    vowels_for_consonants,
    \* the caller: the texts still to convert, and what each call returned
    todo, pc, history,
    \* the running call: its argument, and the position of its for loop
    \* tengwar_start: its locals, and those of its last tengwar_word call
    inp, split_inp, pos, output, word,
    \* convert_to_black_speech: its locals
    tokens, result

tables == <<black_speech_dictionary, black_speech_phonetics,
            voiced_th_prefices, voiced_th_special_prefices,
            voiced_th_solo_prefices, voiced_th_always_safe,
            punctuation, consonants, doubles, vowel_series, vowels,
            vowels_for_consonants>>

vars == <<tables, todo, pc, history, inp, split_inp, pos, output, word,
          tokens, result>>

\* The tables as the module's top level leaves them.
TablesInit ==
    /\ black_speech_dictionary = DictOf(BlackSpeechDictionaryLiteral)
    /\ black_speech_phonetics = BlackSpeechPhoneticsLiteral
    /\ voiced_th_prefices = VoicedThPrefices
    /\ voiced_th_special_prefices = VoicedThSpecialPrefices
    /\ voiced_th_solo_prefices = VoicedThSoloPrefices
    /\ voiced_th_always_safe = VoicedThAlwaysSafe
    /\ punctuation = DictOf(PunctuationLiteral)
    /\ consonants = dictzip(ConsonantLetters, ConsonantGlyphs)
    /\ doubles = DoublesLiteral
    /\ vowel_series = DictOf(VowelSeriesLiteral)
    /\ vowels = Vowels
    /\ vowels_for_consonants = DictOf(VowelsForConsonantsLiteral)

(***************************************************************************)
(* Outcome of a call: a returned string, or a raised exception.            *)
(***************************************************************************)

Return(val) == [exc |-> "", args |-> <<>>, val |-> val]
Raise(exc, args) == [exc |-> exc, args |-> args, val |-> <<>>]

\* glyphs + (the outcome of the rest): an exception passes through.
Prefixed(glyphs, rest) ==
    IF rest.exc # "" THEN rest ELSE Return(glyphs \o rest.val)

(***************************************************************************)
(* replace_th                                                              *)
(***************************************************************************)

TH == S("TH")
th == S("th")

\* The step with every th of the text marked, not only the one of the entry.
AlwaysSafeStep_marks_all(text, x) ==
    IF Contains(text, x) THEN ReplaceAll(text, S("th"), S("TH")) ELSE text

\* for x in voiced_th_always_safe: if x in inp: inp = inp.replace(x, ...)
AlwaysSafeStep(text, x) ==
    IF Contains(text, x) THEN ReplaceAll(text, x, ReplaceAll(x, th, TH)) ELSE text

\* for x in voiced_th_solo_prefices: if x == inp: inp = inp.replace("th", "TH")
SoloStep(text, x) ==
    IF x = text THEN ReplaceAll(text, th, TH) ELSE text

\* The prefix rule that leaves a text alone once an earlier rule marked it.
PrefixStep_skips_marked(text, x) ==
    IF Upto(text, Len(x)) = x /\ ~Contains(text, TH)
    THEN ReplaceAll(text, x, ReplaceAll(x, th, TH)) ELSE text

\* for x in voiced_th_prefices: if inp[:len(x)] == x: ...
PrefixStep(text, x) ==
    IF Upto(text, Len(x)) = x THEN ReplaceAll(text, x, ReplaceAll(x, th, TH)) ELSE text

\* for x in voiced_th_special_prefices: if inp[:len(x)] == x: ...
SpecialPrefixStep(text, x) ==
    IF Upto(text, Len(x)) = x
    THEN ReplaceAll(text, x, Replace(Replace(x, th, TH, 2), TH, th, 1))
    ELSE text

\* One pass of a for loop of replace_th, for the entry x of its list.
ThStep(text, x, kind) ==
    CASE kind = "always_safe" -> AlwaysSafeStep(text, x)
      [] kind = "solo" -> SoloStep(text, x)
      [] kind = "prefix" -> PrefixStep(text, x)
      [] kind = "special" -> SpecialPrefixStep(text, x)

\* One for loop of replace_th over a list, from its k-th entry on (an empty
\* text matches no entry).
RECURSIVE ThLoop(_, _, _, _)
ThLoop(text, list, kind, k) ==
    IF k > Len(list) \/ Len(text) = 0 THEN text
    ELSE ThLoop(ThStep(text, list[k], kind), list, kind, k + 1)

replace_th(text) ==
    ThLoop(ThLoop(ThLoop(ThLoop(text, voiced_th_always_safe, "always_safe", 1),
                         voiced_th_solo_prefices, "solo", 1),
                  voiced_th_prefices, "prefix", 1),
           voiced_th_special_prefices, "special", 1)

(***************************************************************************)
(* tengwar_postfix                                                         *)
(***************************************************************************)

\* for double in doubles: the first entry the text starts with, 0 for none.
FirstDouble(postfix) ==
    LET hits == {k \in DOMAIN doubles : Upto(postfix, Len(doubles[k][1])) = doubles[k][1]}
    IN  IF hits = {} THEN 0 ELSE CHOOSE k \in hits : \A m \in hits : k <= m

\* The lookup that takes the first glyph of the series whatever comes next.
VowelToAdd_first_of_series(nxt, next_consonant) ==
    Return(<<vowel_series[nxt][1]>>)

\* vowel_series[nxt][vowels_for_consonants[next_consonant]]; a glyph that is
\* no key of vowels_for_consonants raises KeyError.
VowelToAdd(nxt, next_consonant) ==
    IF next_consonant \in DOMAIN vowels_for_consonants
    THEN Return(<<vowel_series[nxt][vowels_for_consonants[next_consonant] + 1]>>)
    ELSE Raise("KeyError", <<next_consonant>>)

RECURSIVE tengwar_postfix(_)

\* The branches with a letter that has no mapping left out of the output.
PostfixGlyphs_drops_unknown(nxt, double, tail, rest) ==
    IF ~char_isalpha(nxt) THEN Prefixed(<<GRAVE>>, rest)
    ELSE IF double # 0 THEN Prefixed(doubles[double][2], rest)
    ELSE IF nxt \in DOMAIN vowel_series
    THEN IF Len(tail) = 0 \/ tail[1] \in DOMAIN vowel_series \/ rest.val = <<>>
         THEN Prefixed(<<carrier>> \o VowelToAdd(nxt, carrier).val, rest)
         ELSE Return(<<rest.val[1]>> \o VowelToAdd(nxt, rest.val[1]).val
                       \o Tail(rest.val))
    ELSE IF nxt \in DOMAIN consonants THEN Prefixed(<<consonants[nxt]>>, rest)
    ELSE IF nxt = "x" THEN Prefixed(<<"z", "U+00E6">>, rest)
    ELSE rest

\* The branches of tengwar_postfix for a first character nxt, the double the
\* text starts with (0 if none), the text after it (tail) and the outcome of
\* tengwar_postfix for that text (rest).
PostfixGlyphs(nxt, double, tail, rest) ==
    IF ~char_isalpha(nxt) THEN Prefixed(<<GRAVE>>, rest)
    ELSE IF double # 0 THEN Prefixed(doubles[double][2], rest)
    ELSE IF nxt \in DOMAIN vowel_series
    THEN IF Len(tail) = 0 \/ tail[1] \in DOMAIN vowel_series
         THEN LET vowel_to_add == VowelToAdd(nxt, carrier)
              IN  IF vowel_to_add.exc # "" THEN vowel_to_add
                  ELSE Prefixed(<<carrier>> \o vowel_to_add.val, rest)
         ELSE IF rest.exc # "" THEN rest
         ELSE LET vowel_to_add == VowelToAdd(nxt, rest.val[1])
              IN  IF vowel_to_add.exc # "" THEN vowel_to_add
                  ELSE Return(<<rest.val[1]>> \o vowel_to_add.val
                                \o Tail(rest.val))
    ELSE IF nxt \in DOMAIN consonants THEN Prefixed(<<consonants[nxt]>>, rest)
    ELSE IF nxt = "x" THEN Prefixed(<<"z", "U+00E6">>, rest)
    ELSE Raise("NotImplementedError", <<nxt>> \o S(", ") \o tail)

\* The text after the double, or after the first character.
PostfixTail(postfix, double) ==
    IF double # 0 THEN From(postfix, Len(doubles[double][1])) ELSE Tail(postfix)

PostfixAfter(postfix, double, tail) ==
    PostfixGlyphs(postfix[1], double, tail, tengwar_postfix(tail))

PostfixWith(postfix, double) ==
    PostfixAfter(postfix, double, PostfixTail(postfix, double))

tengwar_postfix(postfix) ==
    IF Len(postfix) = 0 THEN Return(<<>>)
    ELSE PostfixWith(postfix, IF char_isalpha(postfix[1])
                              THEN FirstDouble(postfix) ELSE 0)

(***************************************************************************)
(* tengwar_word                                                            *)
(***************************************************************************)

InStr(c, s) == c \in Range(S(s))

\* Detect hard and soft c and g: for i in range(len(inp) - 1), from i on.
RECURSIVE HardSoftLoop(_, _)
HardSoftLoop(buf, i) ==
    IF i > Len(buf) - 1 THEN buf
    ELSE LET cur == buf[i]
             rest == From(buf, i)
             put(c) == [buf EXCEPT ![i] = c]
             next == IF cur = "g"
                     THEN IF InStr(rest[1], "eiy") THEN put("j") ELSE buf
                     ELSE IF cur = "c"
                     THEN IF InStr(rest[1], "eiy") THEN put("s")
                          ELSE IF InStr(rest[1], "h") THEN put("C")
                          ELSE put("k")
                     ELSE buf
         IN  HardSoftLoop(next, i + 1)

\* The buffer with a final c left as it is.
FinalC_kept(buf) == buf

\* if inp[-1] == "c": inp = inp[:-1] + "k"
FinalC(buf) ==
    IF buf[Len(buf)] = "c" THEN Upto(buf, Len(buf) - 1) \o S("k") ELSE buf

HardSoftCG(buf) == FinalC(HardSoftLoop(buf, 1))

\* for i in range(len(inp) - 1): if inp[i] == letter and inp[i + 1] in
\* before: inp = inp[:i] + marker + inp[i + 1:]
RECURSIVE MarkLoop(_, _, _, _, _)
MarkLoop(buf, letter, before, marker, i) ==
    IF i > Len(buf) - 1 THEN buf
    ELSE MarkLoop(IF buf[i] = letter /\ InStr(buf[i + 1], before)
                  THEN Upto(buf, i - 1) \o <<marker>> \o From(buf, i)
                  ELSE buf,
                  letter, before, marker, i + 1)

\* Detect places where we can use the pre-vowel r
PreVowelR(buf) == MarkLoop(buf, "r", "aeiouy", "R", 1)

\* The buffer with its q left in place.
FoldQ_skipped(buf) == buf

\* q == k
FoldQ(buf) == ReplaceAll(buf, S("q"), S("k"))

\* Detect differences between consonant y (henceforth Y) and vowel y
ConsonantY(buf) == MarkLoop(buf, "y", "aeiou", "Y", 1)

\* Detach the ending s if we notice one... and it's not after aiou
HasTrailingS(buf) ==
    /\ Len(buf) > 0 /\ buf[Len(buf)] = "s"
    /\ Len(buf) > 1 /\ ~InStr(buf[Len(buf) - 1], "aiou")

\* The test that also wants a vowel before the consonant.
HasTrailingE_after_vowel(buf) ==
    /\ Len(buf) >= 3 /\ buf[Len(buf)] = "e" /\ ~InStr(buf[Len(buf) - 1], "aeiouy")
    /\ InStr(buf[Len(buf) - 2], "aeiouy")

\* Detach the ending e: vowel THEN consonant THEN e
HasTrailingE(buf) ==
    Len(buf) >= 3 /\ buf[Len(buf)] = "e" /\ ~InStr(buf[Len(buf) - 1], "aeiouy")

\* Detect places where we can use the not-post-vowel s and z
RECURSIVE FancyLoop(_, _)
FancyLoop(out, i) ==
    IF i > Len(out) - 1 THEN out
    ELSE LET s1 == IF out[i] = "i" /\ out[i + 1] \notin Range(vowels)
                   THEN Upto(out, i - 1) \o S("8") \o From(out, i) ELSE out
             s2 == IF s1[i] = "," /\ s1[i + 1] \notin Range(vowels)
                   THEN Upto(s1, i - 1) \o S("k") \o From(s1, i) ELSE s1
         IN  FancyLoop(s2, i + 1)

FancySZ(out) == FancyLoop(out, 1)

\* Add the ending e if we detached it earlier
AttachE(out, has_trailing_e) ==
    IF has_trailing_e THEN out \o S("O") ELSE out

\* The ending s with the default glyph after every final glyph.
AttachS_default(out, has_trailing_s) ==
    IF has_trailing_s THEN out \o S("_") ELSE out

\* Add the ending s if we detached it earlier
AttachS(out, has_trailing_s) ==
    IF ~has_trailing_s THEN out
    ELSE IF InStr(out[Len(out)], "7um8k") THEN out \o <<"U+00C5">>
    ELSE IF InStr(out[Len(out)], "qwertyo") THEN out \o <<"U+00C6">>
    ELSE IF InStr(out[Len(out)], "l9") THEN out \o <<"U+00A5">>
    ELSE out \o S("_")

\* The locals of one tengwar_word call when it returns or raises: the
\* outcome (exc, args, val), the buffer after replace_th (voiced), the
\* buffer handed to tengwar_postfix (stem), the two flags, and the output
\* before the suffixes are added (body).
WordFrame(outcome, voiced, stem, s, e, body) ==
    [exc |-> outcome.exc, args |-> outcome.args, val |-> outcome.val,
     voiced |-> voiced, stem |-> stem,
     has_trailing_s |-> s, has_trailing_e |-> e, body |-> body]

\* A return before any of these locals is set.
EarlyReturn(val) == WordFrame(Return(val), <<>>, <<>>, FALSE, FALSE, <<>>)

NoFrame == EarlyReturn(<<>>)

\* The locals of tengwar_word between its steps.
Locals(voiced, buf, s, e) ==
    [voiced |-> voiced, inp |-> buf, has_trailing_s |-> s, has_trailing_e |-> e]

StartLocals(voiced) == Locals(voiced, voiced, FALSE, FALSE)

\* Detect voiced th
DetectVoicedTh(low) == StartLocals(replace_th(low))

\* From "Detect hard and soft c and g" to "consonant y and vowel y"
MarkConsonants(l) ==
    [l EXCEPT !.inp = ConsonantY(FoldQ(PreVowelR(HardSoftCG(l.inp))))]

DetachS(l) ==
    IF HasTrailingS(l.inp)
    THEN Locals(l.voiced, Upto(l.inp, Len(l.inp) - 1), TRUE, l.has_trailing_e)
    ELSE l

DetachE(l) ==
    IF HasTrailingE(l.inp)
    THEN Locals(l.voiced, Upto(l.inp, Len(l.inp) - 1), l.has_trailing_s, TRUE)
    ELSE l

\* From "Detect places where we can use the not-post-vowel s and z" on
Suffixed(l, body) ==
    WordFrame(Return(AttachS(AttachE(body, l.has_trailing_e), l.has_trailing_s)),
              l.voiced, l.inp, l.has_trailing_s, l.has_trailing_e, body)

Elfified(l, outcome) ==
    IF outcome.exc # ""
    THEN WordFrame(outcome, l.voiced, l.inp, l.has_trailing_s, l.has_trailing_e, <<>>)
    ELSE Suffixed(l, FancySZ(outcome.val))

\* output = carrier if len(inp) == 0 else tengwar_postfix(inp)
Elfify(l) ==
    Elfified(l, IF Len(l.inp) = 0 THEN Return(<<carrier>>) ELSE tengwar_postfix(l.inp))

\* tengwar_word from "Detect voiced th" on, for a lowercased buffer that is
\* neither empty nor one of the two irregular words.
RegularWord(low) ==
    Elfify(DetachE(DetachS(MarkConsonants(DetectVoicedTh(low)))))

\* tengwar_word without the test for "the": the word takes the regular rules.
tengwar_word_without_the(item) ==
    IF lower(item) = <<>> THEN EarlyReturn(<<>>)
    ELSE IF lower(item) = S("of") THEN EarlyReturn(S("W"))
    ELSE RegularWord(lower(item))

tengwar_word(item) ==
    IF lower(item) = <<>> THEN EarlyReturn(<<>>)
    ELSE IF lower(item) = S("of") THEN EarlyReturn(S("W"))
    ELSE IF lower(item) = S("the") THEN EarlyReturn(S("@"))
    ELSE RegularWord(lower(item))

(***************************************************************************)
(* tengwar_token, tengwar_number, the tokenizer of tengwar_start           *)
(***************************************************************************)

\* A numeral whose length grows with the number.
tengwar_number_by_value(num) ==
    [k \in 1..(IF num < 12 THEN 1 ELSE 2) |-> GRAVE]

\* TODO in the source: base-12 numerals; every number is the same string.
tengwar_number(num) == <<GRAVE, GRAVE, GRAVE, GRAVE, GRAVE>>

\* int(item) of a string of decimal digits
RECURSIVE int(_)
int(item) ==
    IF Len(item) = 0 THEN 0
    ELSE 10 * int(Upto(item, Len(item) - 1)) + (IndexOf(item[Len(item)], AsciiDigits) - 1)

\* The result carries the locals of the tengwar_word call, if there is one.
tengwar_token(item) ==
    IF item \in DOMAIN punctuation THEN EarlyReturn(punctuation[item])
    ELSE IF isdigit(item) THEN EarlyReturn(tengwar_number(int(item)))
    ELSE tengwar_word(ReplaceAll(item, S("'"), <<>>))

\* The second alternative of the pattern of tengwar_start: one character of
\* [.,!\?;\"'-_`:<>/\\\[\]\(\){}@#$%^&\*=\+| \n], where '-_ is the range
\* from the apostrophe to the underscore.
ApostropheToUnderscore ==
    S("'()*+,-./0123456789:;<=>?@ABCDEFGHIJKLMNOPQRSTUVWXYZ[\\]^_")

\* The class with the tab added to it.
TengwarClass_with_tab ==
    Range(S(".,!?;\"")) \cup Range(ApostropheToUnderscore) \cup {GRAVE}
        \cup Range(S(":<>/\\[](){}@#$%^&*=+| \n\t"))

TengwarClass ==
    Range(S(".,!?;\"")) \cup Range(ApostropheToUnderscore) \cup {GRAVE}
        \cup Range(S(":<>/\\[](){}@#$%^&*=+| \n"))

\* A run that stops after its first character.
AlnumRun_one(text) == IF Len(text) = 0 \/ ~re_alnum(text[1]) THEN 0 ELSE 1

\* The length of the run of [^\W_] characters that text starts with.
RECURSIVE AlnumRun(_)
AlnumRun(text) ==
    IF Len(text) = 0 \/ ~re_alnum(text[1]) THEN 0 ELSE 1 + AlnumRun(Tail(text))

\* re.findall(r"[^\W_]+|[...]", text)
RECURSIVE tengwar_findall(_)
tengwar_findall(text) ==
    IF Len(text) = 0 THEN <<>>
    ELSE LET n == IF re_alnum(text[1]) THEN AlnumRun(text) ELSE 1
             match == IF re_alnum(text[1]) \/ text[1] \in TengwarClass
                      THEN <<Upto(text, n)>> ELSE <<>>
         IN  match \o tengwar_findall(From(text, n))

(***************************************************************************)
(* convert_to_black_speech, apply_black_speech_phonetics                   *)
(***************************************************************************)

\* The length of the run of \w characters that text starts with.
RECURSIVE WordRun(_)
WordRun(text) ==
    IF Len(text) = 0 \/ ~re_word(text[1]) THEN 0 ELSE 1 + WordRun(Tail(text))

\* re.findall(r'\b\w+\b|[^\w\s]', text)
RECURSIVE black_findall(_)
black_findall(text) ==
    IF Len(text) = 0 THEN <<>>
    ELSE LET n == IF re_word(text[1]) THEN WordRun(text) ELSE 1
             match == IF re_word(text[1]) \/ ~char_isspace(text[1])
                      THEN <<Upto(text, n)>> ELSE <<>>
         IN  match \o black_findall(From(text, n))

\* re.sub(r'g(?=[eiy])', 'gh', word)
RECURSIVE SoftG(_)
SoftG(w) ==
    IF Len(w) = 0 THEN w
    ELSE (IF w[1] = "g" /\ Len(w) > 1 /\ InStr(w[2], "eiy")
          THEN S("gh") ELSE <<w[1]>>) \o SoftG(Tail(w))

\* re.sub(r'([aeiou])\1', r'\1', word)
RECURSIVE ReduceDoubleVowels(_)
ReduceDoubleVowels(w) ==
    IF Len(w) = 0 THEN w
    ELSE LET pair == Len(w) > 1 /\ InStr(w[1], "aeiou") /\ w[2] = w[1]
         IN  <<w[1]>> \o ReduceDoubleVowels(From(w, IF pair THEN 2 ELSE 1))

\* re.sub(suffix + '$', replacement, word)
SubSuffix(w, suffix, replacement) ==
    IF EndsWith(w, suffix) THEN Upto(w, Len(w) - Len(suffix)) \o replacement ELSE w

\* for pattern, replacement in black_speech_phonetics.items(), from entry k on
RECURSIVE PhoneticsLoop(_, _)
PhoneticsLoop(w, k) ==
    IF k > Len(black_speech_phonetics) THEN w
    ELSE LET pattern == black_speech_phonetics[k][1]
             replacement == black_speech_phonetics[k][2]
         IN  PhoneticsLoop(IF Contains(w, pattern)
                           THEN IF pattern = S("soft_g") THEN SoftG(w)
                                ELSE ReplaceAll(w, pattern, replacement)
                           ELSE w,
                           k + 1)

apply_black_speech_phonetics(w) ==
    LET w1 == PhoneticsLoop(w, 1)
        w2 == ReplaceAll(w1, S("v"), S("f"))
        w3 == ReplaceAll(w2, S("w"), S("v"))
        w4 == ReplaceAll(w3, S("y"), S("i"))
        w5 == ReduceDoubleVowels(w4)
        w6 == SubSuffix(w5, S("s"), S("z"))
        w7 == SubSuffix(w6, S("ed"), S("ad"))
        w8 == SubSuffix(w7, S("ing"), S("ugh"))
        w9 == ReplaceAll(w8, S("oo"), <<"U+00FB">>)
        w10 == ReplaceAll(w9, S("ee"), <<"U+00EE">>)
    IN  ReplaceAll(w10, S("aa"), <<"U+00E2">>)

\* The pass with the phonetic rules run on the mapped word as well.
BlackToken_phonetics_on_mapped(token) ==
    IF isalpha(token)
    THEN IF token \in DOMAIN black_speech_dictionary
         THEN <<apply_black_speech_phonetics(black_speech_dictionary[token])>>
         ELSE <<apply_black_speech_phonetics(token)>>
    ELSE <<token>>

\* The pass without the test for an empty mapping.
BlackToken_keeps_empty(token) ==
    IF isalpha(token)
    THEN IF token \in DOMAIN black_speech_dictionary
         THEN <<black_speech_dictionary[token]>>
         ELSE <<apply_black_speech_phonetics(token)>>
    ELSE <<token>>

\* One pass of the for loop of convert_to_black_speech: what the token adds
\* to the result list.
BlackToken(token) ==
    IF isalpha(token)
    THEN IF token \in DOMAIN black_speech_dictionary
         THEN LET black_word == black_speech_dictionary[token]
              IN  IF black_word # <<>> THEN <<black_word>> ELSE <<>>
         ELSE <<apply_black_speech_phonetics(token)>>
    ELSE <<token>>

(***************************************************************************)
(* The texts the caller converts                                           *)
(***************************************************************************)

\* How many pieces a composed text has at most, and how many calls a caller
\* that converts several texts makes at most.
MaxPieces == 3
MaxCalls == 3

\* The pieces of the composed texts: the two irregular words in two cases,
\* whitespace, a character no pattern recognizes, an accented letter, a
\* digit, a dictionary word that is elided and one that is not.
Pieces ==
    {S("the"), S("Of"), S(" "), S("\n"), S("\t"), S("~"), <<"U+00E9">>,
     S("7"), S("to"), S("ring")}

ComposedTexts ==
    UNION {{Concat(f) : f \in [1..n -> Pieces]} : n \in 0..MaxPieces}

\* Words that reach the rules of tengwar_word and of the phonetic fallback.
ProbeWords ==
    {S("notes"), S("rules"), S("words"), S("maps"), S("ahs"), S("cats"),
     S("worlds"), S("camps"), S("nhs"), S("helps"),
     S("gas"), S("is"), S("s"), S("ss"), S("note"), S("little"), S("see"),
     S("success"), S("music"), S("quite"), S("yes"), S("year"), S("very"),
     S("giant"), S("change"), S("church"), S("taxes"), S("a1"), S("42"),
     S("x"), S("I"), S("thank"), S("thee"), S("theme"), S("THE"), S("OF"),
     S("off"), S("bathe"), S("soft_g"), S("gem"), S("looked"), S("seeing"),
     S("zoo"), S("caf") \o <<"U+00E9">>, <<"U+00C9">> \o S("t") \o <<"U+00E9">>}

\* Whole sentences, with punctuation.
Sentences ==
    {S("one ring to rule them all"), S("of the"), S("notes-to-self, and"),
     S("I've"), S("to the ring."), S("ring to"), S("the_ring"),
     S("(\"This was a triumph.\")"), S("7 of 9!"),
     S("to the ring, in to")}

\* Every entry of the four th-voicing lists, as a word of its own.
ListWords ==
    Range(VoicedThAlwaysSafe) \cup Range(VoicedThSoloPrefices)
        \cup Range(VoicedThPrefices) \cup Range(VoicedThSpecialPrefices)

\* Words that start with an entry of the prefix list and hold an always-safe
\* entry as well.
BothWords ==
    {S("thereother"), S("themotherthem"), S("theseethe"), S("althoughbathe"),
     S("Thymother"), S("thoseloathither")}

\* Every letter of the alphabet, and every key of doubles after a vowel.
AlphabetTexts ==
    {S("The quick brown fox jumps over the lazy dog"),
     S("ash azhi each aphid akh ugh awhile ring ard old ether eye Cycle B2B")}

Texts ==
    ComposedTexts \cup ProbeWords \cup Sentences \cup ListWords \cup BothWords
        \cup AlphabetTexts

\* The texts of a caller that makes several calls.
ReplayTexts ==
    {S("the ring"), <<"U+00E9">>, S("to"), S("notes"), S(" \t")}

\* What a caller converts: one text, or up to MaxCalls of the replay texts.
Workloads ==
    {<<t>> : t \in Texts}
        \cup UNION {[1..n -> ReplayTexts] : n \in 2..MaxCalls}

(***************************************************************************)
(* The caller and the two conversion functions as a state machine          *)
(***************************************************************************)

\* The record of one finished call: the function, its argument, and how it
\* ended.
Call(fn, text, outcome) ==
    [fn |-> fn, inp |-> text, exc |-> outcome.exc, args |-> outcome.args,
     val |-> outcome.val]

Init ==
    /\ TablesInit
    /\ todo \in Workloads
    /\ pc = "idle"
    /\ history = <<>>
    /\ inp = <<>>
    /\ split_inp = <<>>
    /\ pos = 1
    /\ output = <<>>
    /\ word = NoFrame
    /\ tokens = <<>>
    /\ result = <<>>

\* tengwar_start(inp): the call, up to the start of the for loop.
TengwarStart ==
    /\ pc = "idle"
    /\ todo # <<>>
    /\ inp' = Head(todo)
    /\ todo' = Tail(todo)
    /\ split_inp' = tengwar_findall(Head(todo))
    /\ pos' = 1
    /\ output' = <<>>
    /\ word' = NoFrame
    /\ pc' = "tengwar_start"
    /\ UNCHANGED <<tables, history, tokens, result>>

\* output += (what tengwar_token returned), or the exception it raised ends
\* the call.
ItemDone(frame) ==
    /\ word' = frame
    /\ IF frame.exc = ""
       THEN /\ output' = output \o frame.val
            /\ pos' = pos + 1
            /\ UNCHANGED <<pc, history>>
       ELSE /\ pc' = "idle"
            /\ history' = Append(history, Call("tengwar_start", inp, frame))
            /\ UNCHANGED <<output, pos>>

\* for item in split_inp: output += tengwar_token(item)
TengwarItem ==
    /\ pc = "tengwar_start"
    /\ pos <= Len(split_inp)
    /\ ItemDone(tengwar_token(split_inp[pos]))
    /\ UNCHANGED <<tables, todo, inp, split_inp, tokens, result>>

\* return output
TengwarReturn ==
    /\ pc = "tengwar_start"
    /\ pos > Len(split_inp)
    /\ pc' = "idle"
    /\ history' = Append(history, Call("tengwar_start", inp, Return(output)))
    /\ UNCHANGED <<tables, todo, inp, split_inp, pos, output, word, tokens, result>>

\* convert_to_black_speech(inp) with nothing but whitespace: return inp
BlackSpeechBlank ==
    /\ pc = "idle"
    /\ todo # <<>>
    /\ strip_is_empty(Head(todo))
    /\ inp' = Head(todo)
    /\ todo' = Tail(todo)
    /\ tokens' = <<>>
    /\ result' = <<>>
    /\ pos' = 1
    /\ history' = Append(history, Call("convert_to_black_speech", Head(todo),
                                       Return(Head(todo))))
    /\ UNCHANGED <<tables, pc, split_inp, output, word>>

\* convert_to_black_speech(inp): the call, up to the start of the for loop.
BlackSpeechStart ==
    /\ pc = "idle"
    /\ todo # <<>>
    /\ ~strip_is_empty(Head(todo))
    /\ inp' = Head(todo)
    /\ todo' = Tail(todo)
    /\ tokens' = black_findall(lower(Head(todo)))
    /\ result' = <<>>
    /\ pos' = 1
    /\ pc' = "convert_to_black_speech"
    /\ UNCHANGED <<tables, history, split_inp, output, word>>

\* The pass that also stores what it computed in the dictionary.
BlackSpeechToken_caching ==
    /\ pc = "convert_to_black_speech"
    /\ pos <= Len(tokens)
    /\ result' = result \o BlackToken(tokens[pos])
    /\ pos' = pos + 1
    /\ black_speech_dictionary' =
          IF isalpha(tokens[pos]) /\ tokens[pos] \notin DOMAIN black_speech_dictionary
          THEN (tokens[pos] :> <<>>) @@ black_speech_dictionary
          ELSE black_speech_dictionary
    /\ UNCHANGED <<black_speech_phonetics, voiced_th_prefices,
                   voiced_th_special_prefices, voiced_th_solo_prefices,
                   voiced_th_always_safe, punctuation, consonants, doubles,
                   vowel_series, vowels, vowels_for_consonants,
                   todo, pc, history, inp, split_inp, output, word, tokens>>

\* for token in tokens: one pass
BlackSpeechToken ==
    /\ pc = "convert_to_black_speech"
    /\ pos <= Len(tokens)
    /\ result' = result \o BlackToken(tokens[pos])
    /\ pos' = pos + 1
    /\ UNCHANGED <<tables, todo, pc, history, inp, split_inp, output, word, tokens>>

\* return ' '.join(result)
BlackSpeechReturn ==
    /\ pc = "convert_to_black_speech"
    /\ pos > Len(tokens)
    /\ pc' = "idle"
    /\ history' = Append(history, Call("convert_to_black_speech", inp,
                                       Return(Join(S(" "), result))))
    /\ UNCHANGED <<tables, todo, inp, split_inp, pos, output, word, tokens, result>>

Next ==
    \/ TengwarStart
    \/ TengwarItem
    \/ TengwarReturn
    \/ BlackSpeechBlank
    \/ BlackSpeechStart
    \/ BlackSpeechToken
    \/ BlackSpeechReturn

Spec == Init /\ [][Next]_vars


(***************************************************************************)
(* Properties                                                              *)
(***************************************************************************)

LastCall == history[Len(history)]

TengwarCalls == {k \in DOMAIN history : history[k].fn = "tengwar_start"}
BlackSpeechCalls == {k \in DOMAIN history : history[k].fn = "convert_to_black_speech"}

\* tengwar_start is about to handle the item at pos / has just handled the
\* item before pos.
AtItem == pc = "tengwar_start" /\ pos <= Len(split_inp)
AfterItem == pc = "tengwar_start" /\ pos > 1

Placeholder == <<GRAVE, GRAVE, GRAVE, GRAVE, GRAVE>>

\* C1: a word token of tengwar_start that is "the" or "of" in any case adds
\* exactly "@" (the) or "W" (of) to the output, whatever comes before or
\* after it, and none of the other rules of tengwar_word runs on it (no
\* buffer after replace_th, no suffix flag).
C1_IrregularWords ==
    [][(AtItem /\ lower(split_inp[pos]) \in {S("the"), S("of")}) =>
          /\ output' = output \o (IF lower(split_inp[pos]) = S("the")
                                  THEN <<"@">> ELSE <<"W">>)
          /\ pos' = pos + 1
          /\ word'.voiced = <<>>
          /\ ~word'.has_trailing_s /\ ~word'.has_trailing_e]_vars

\* "The" has been handled between two other tokens.
C1_Witness ==
    /\ AfterItem /\ pos = 3
    /\ split_inp = <<S("\n"), S("the"), S(" ")>>
    /\ output = S("\n@")

\* C2 as claimed: every call on an empty or whitespace-only input returns
\* the input unchanged.
C2_WhitespaceUnchanged ==
    \A k \in DOMAIN history :
        strip_is_empty(history[k].inp) =>
            history[k].exc = "" /\ history[k].val = history[k].inp

SpacesAndNewlines(text) == SelectSeq(text, LAMBDA c : c \in {" ", "\n"})

\* C2 amended: on an empty or whitespace-only input convert_to_black_speech
\* returns the input unchanged, and tengwar_start returns its spaces and
\* newlines and drops every other whitespace character, such as a tab: it
\* returns the input unchanged when it holds only spaces and newlines.
C2_KeepsSpacesAndNewlines ==
    \A k \in DOMAIN history :
        strip_is_empty(history[k].inp) =>
            /\ history[k].exc = ""
            /\ k \in BlackSpeechCalls => history[k].val = history[k].inp
            /\ k \in TengwarCalls => history[k].val = SpacesAndNewlines(history[k].inp)

\* tengwar_start has returned from a text of a space, a tab and a newline.
C2_Witness ==
    /\ history # <<>> /\ LastCall.fn = "tengwar_start"
    /\ LastCall.inp = S(" \t\n") /\ LastCall.val = S(" \n")

\* C3 as claimed: no call ends by raising an exception.
C3_NeverRaises ==
    \A k \in DOMAIN history : history[k].exc = ""

AsciiLetter(c) == c \in Range(AsciiLower) \cup Range(AsciiUpper)

\* C3 amended: convert_to_black_speech always returns; tengwar_start returns
\* for every text whose letters are all of a-z and A-Z, and for a text with
\* another letter, such as an accented one, it returns or raises
\* NotImplementedError.
C3_RaisesOnlyOnOtherLetters ==
    \A k \in DOMAIN history :
        /\ k \in BlackSpeechCalls => history[k].exc = ""
        /\ k \in TengwarCalls =>
              \/ history[k].exc = ""
              \/ /\ history[k].exc = "NotImplementedError"
                 /\ \E c \in Range(history[k].inp) : char_isalpha(c) /\ ~AsciiLetter(c)

\* tengwar_start has raised on an accented letter, and the next call, on a
\* word of ASCII letters, has returned.
C3_Witness ==
    /\ Len(history) >= 2
    /\ history[1].fn = "tengwar_start" /\ history[1].inp = <<"U+00E9">>
    /\ history[1].exc = "NotImplementedError"
    /\ history[2].fn = "tengwar_start" /\ history[2].inp = S("notes")
    /\ history[2].exc = "" /\ history[2].val # <<>>

\* The characters the pattern of tengwar_start keeps.
Kept(c) == re_alnum(c) \/ c \in TengwarClass

IsWordToken(token) == Len(token) >= 1 /\ \A k \in DOMAIN token : re_alnum(token[k])

\* The places of text where a run of word characters starts.
RunStarts(text) ==
    {k \in DOMAIN text : re_alnum(text[k]) /\ (k = 1 \/ ~re_alnum(text[k - 1]))}

\* C4: the tokens of tengwar_start are in input order; each is a run of
\* word characters (no underscore) or one character of the recognized set;
\* joined they are the input without the characters that are neither; and
\* there is one word token for each maximal run of word characters.
C4_Tokenizer ==
    pc = "tengwar_start" =>
        /\ Concat(split_inp) = SelectSeq(inp, Kept)
        /\ \A k \in DOMAIN split_inp :
              \/ IsWordToken(split_inp[k])
              \/ /\ Len(split_inp[k]) = 1
                 /\ split_inp[k][1] \in TengwarClass
        /\ Cardinality({k \in DOMAIN split_inp : IsWordToken(split_inp[k])})
              = Cardinality(RunStarts(inp))

\* A text with two words around a character that is dropped.
C4_Witness ==
    /\ pc = "tengwar_start"
    /\ inp = S("the~ring") /\ split_inp = <<S("the"), S("ring")>>

\* C5: a token of digits only adds the placeholder of five carriers to the
\* output, whichever digits and however many it holds.
C5_DigitPlaceholder ==
    [][(AtItem /\ isdigit(split_inp[pos])) =>
          /\ output' = output \o Placeholder
          /\ word'.val = Placeholder
          /\ pos' = pos + 1]_vars

\* A token of two digits has been handled.
C5_Witness ==
    /\ AfterItem /\ split_inp[pos - 1] = S("42")
    /\ output = Placeholder

AtToken == pc = "convert_to_black_speech" /\ pos <= Len(tokens)

\* C6: in convert_to_black_speech an alphabetic token that is a key of the
\* dictionary adds exactly its mapped word to the result list when that
\* word is not empty (the phonetic rules do not touch it), and adds no
\* element at all when it is empty.
C6_DictionaryFirst ==
    [][(AtToken /\ isalpha(tokens[pos])
          /\ tokens[pos] \in DOMAIN black_speech_dictionary) =>
          result' = IF black_speech_dictionary[tokens[pos]] # <<>>
                    THEN Append(result, black_speech_dictionary[tokens[pos]])
                    ELSE result]_vars

\* "one" has given "ash", which the phonetic rules would change, and "to"
\* after "ring" has given nothing.
C6_Witness ==
    /\ pc = "convert_to_black_speech" /\ pos = 4
    /\ SubSeq(tokens, 1, 3) = <<S("one"), S("ring"), S("to")>>
    /\ result = <<S("ash"), S("nazg")>>
    /\ apply_black_speech_phonetics(S("ash")) # S("ash")

HasSpace(text) == " " \in Range(text)

\* C7: for an input that is not whitespace-only the output of
\* convert_to_black_speech is the emitted tokens, each non-empty and free of
\* spaces, in order and one space apart: it neither starts nor ends with a
\* space and has no two spaces in a row.
C7_SingleSpaces ==
    (pc = "idle" /\ history # <<>> /\ LastCall.fn = "convert_to_black_speech"
        /\ ~strip_is_empty(LastCall.inp)) =>
        LET val == LastCall.val
        IN  /\ \A k \in DOMAIN result : result[k] # <<>> /\ ~HasSpace(result[k])
            /\ SelectSeq(val, LAMBDA c : c # " ") = Concat(result)
            /\ Len(val) = Len(Concat(result))
                            + (IF result = <<>> THEN 0 ELSE Len(result) - 1)
            /\ val # <<>> => val[1] # " " /\ val[Len(val)] # " "
            /\ \A k \in 1..(Len(val) - 1) : ~(val[k] = " " /\ val[k + 1] = " ")

\* Elided words at the start, next to each other and at the end.
C7_Witness ==
    /\ pc = "idle" /\ history # <<>>
    /\ LastCall.fn = "convert_to_black_speech"
    /\ LastCall.inp = S("to the ring, in to")
    /\ LastCall.val = S("nazg ,")

\* The places where pattern occurs in text.
Places(text, pattern) ==
    {k \in 1..(Len(text) - Len(pattern) + 1) :
        SubSeq(text, k, k + Len(pattern) - 1) = pattern}

Least(places) == CHOOSE k \in places : \A m \in places : k <= m

\* The occurrence of "th" that is to be voiced in an entry of the lists: the
\* second one of a special entry, the only one of any other entry.
Documented(entry) ==
    IF entry \in Range(voiced_th_special_prefices)
    THEN Least(Places(entry, S("th")) \ {Least(Places(entry, S("th")))})
    ELSE Least(Places(entry, S("th")))

ListEntries ==
    Range(voiced_th_always_safe) \cup Range(voiced_th_solo_prefices)
        \cup Range(voiced_th_prefices) \cup Range(voiced_th_special_prefices)

\* C8: for a token that is an entry of one of the four lists, replace_th
\* turns the documented "th" into "TH" and changes nothing else: the only
\* "th" of an always-safe, solo or prefix entry, and the second of the two
\* of "thither", whose first stays lowercase.
C8_VoicedOccurrence ==
    (AfterItem /\ lower(split_inp[pos - 1]) \in ListEntries) =>
        LET entry == lower(split_inp[pos - 1])
            voiced == word.voiced
        IN  /\ Cardinality(Places(entry, S("th")))
                  = IF entry \in Range(voiced_th_special_prefices) THEN 2 ELSE 1
            /\ Len(voiced) = Len(entry)
            /\ Places(voiced, S("TH")) = {Documented(entry)}
            /\ \A k \in DOMAIN entry :
                  k \notin {Documented(entry), Documented(entry) + 1}
                      => voiced[k] = entry[k]

\* "thither" has become "thiTHer".
C8_Witness ==
    /\ AfterItem /\ split_inp[pos - 1] = S("thither")
    /\ word.voiced = S("thiTHer")

\* The token takes the regular rules of tengwar_word.
IsRegularWord(token) ==
    /\ token \notin DOMAIN punctuation
    /\ ~isdigit(token)
    /\ lower(token) \notin {S("of"), S("the")}

\* The glyph of a detached s after the final glyph of the output.
SuffixGlyph(final) ==
    IF final \in {"7", "u", "m", "8", "k"} THEN "U+00C5"
    ELSE IF final \in {"q", "w", "e", "r", "t", "y", "o"} THEN "U+00C6"
    ELSE IF final \in {"l", "9"} THEN "U+00A5"
    ELSE "_"

\* C9: in tengwar_word each flag that is set stands for one letter taken
\* off the buffer and adds exactly one glyph to the end of the same word's
\* output, and a flag that is not set adds none: "O" for the e, and for the
\* s the glyph of the bucket of the output's final glyph at that point.
C9_SuffixPairing ==
    (AfterItem /\ IsRegularWord(split_inp[pos - 1])) =>
        LET with_e == IF word.has_trailing_e THEN word.body \o <<"O">> ELSE word.body
            with_s == IF word.has_trailing_s
                      THEN with_e \o <<SuffixGlyph(with_e[Len(with_e)])>>
                      ELSE with_e
            letters == (IF word.has_trailing_e THEN 1 ELSE 0)
                         + (IF word.has_trailing_s THEN 1 ELSE 0)
        IN  /\ word.val = with_s
            /\ Len(word.val) = Len(word.body) + letters
            /\ Len(word.stem) = Len(split_inp[pos - 1]) - letters

\* "worlds" has lost its s and got the glyph of the bucket of "m".
C9_Witness ==
    /\ AfterItem /\ split_inp[pos - 1] = S("worlds")
    /\ word.has_trailing_s /\ ~word.has_trailing_e
    /\ word.val = word.body \o <<"U+00C5">>

\* C10: no call changes a table, and two calls of the same function on the
\* same input end the same way, whatever was called in between.
C10_NoHiddenState ==
    /\ [][tables' = tables]_vars
    /\ [](\A j, k \in DOMAIN history :
            (history[j].fn = history[k].fn /\ history[j].inp = history[k].inp)
                => history[j] = history[k])

\* The same call before and after a call of the other function on another
\* text.
C10_Witness ==
    /\ Len(history) = 3
    /\ history[1].fn = "convert_to_black_speech" /\ history[1].inp = S("notes")
    /\ history[2].fn = "tengwar_start" /\ history[2].inp = S("the ring")
    /\ history[3].fn = "convert_to_black_speech" /\ history[3].inp = S("notes")

\* A letter that no table of the transducer maps: no vowel, no consonant
\* key, not "x", and in no key of doubles.
Unmapped(c) ==
    /\ char_isalpha(c)
    /\ c \notin DOMAIN vowel_series /\ c \notin DOMAIN consonants /\ c # "x"
    /\ \A k \in DOMAIN doubles : c \notin Range(doubles[k][1])

UnmappedPlaces(buf) == {k \in DOMAIN buf : Unmapped(buf[k])}

\* C11: when the buffer that tengwar_word hands to tengwar_postfix holds a
\* letter without a mapping, the item ends the call of tengwar_start with
\* NotImplementedError, whose message starts with the first such letter and
\* goes on with the text after it; nothing is added to the output and the
\* call returns no string.
C11_UnmappedLetterRaises ==
    [][(AtItem /\ UnmappedPlaces(word'.stem) # {}) =>
          LET at == Least(UnmappedPlaces(word'.stem))
          IN  /\ pc' = "idle"
              /\ output' = output
              /\ Len(history') = Len(history) + 1
              /\ history'[Len(history')].fn = "tengwar_start"
              /\ history'[Len(history')].inp = inp
              /\ history'[Len(history')].exc = "NotImplementedError"
              /\ history'[Len(history')].val = <<>>
              /\ history'[Len(history')].args
                    = <<word'.stem[at]>> \o S(", ") \o From(word'.stem, at)]_vars

\* The call on "caf" and e-acute has ended with the error that names the
\* accented letter, after the c was rewritten.
C11_Witness ==
    /\ pc = "idle" /\ history # <<>>
    /\ LastCall.fn = "tengwar_start"
    /\ LastCall.inp = S("caf") \o <<"U+00E9">>
    /\ word.stem = S("kaf") \o <<"U+00E9">>
    /\ LastCall.exc = "NotImplementedError"
    /\ LastCall.args = <<"U+00E9">> \o S(", ")

\* The always-safe entries that low holds and the prefix entries that it
\* starts with.
SafeEntries(low) == {x \in Range(voiced_th_always_safe) : Contains(low, x)}
PrefixEntries(low) == {x \in Range(voiced_th_prefices) : Upto(low, Len(x)) = x}

MatchesBoth(token) ==
    IsRegularWord(token)
        /\ SafeEntries(lower(token)) # {} /\ PrefixEntries(lower(token)) # {}

\* The places of the "th" of the occurrences in low of the entries of a set.
ThPlacesOf(low, entries) ==
    UNION {{k + m - 1 : m \in Places(x, S("th"))} : <<k, x>> \in
              {<<k, x>> \in (DOMAIN low) \X entries : k \in Places(low, x)}}

VowelBeforeOther(buf) ==
    {k \in 1..(Len(buf) - 1) :
        buf[k] \in DOMAIN vowel_series /\ buf[k + 1] \notin DOMAIN vowel_series}

\* The glyph of the vowel v before a remainder whose output starts with the
\* glyph first.
SeriesGlyph(v, first) == vowel_series[v][vowels_for_consonants[first] + 1]

\* C13 as claimed: the glyph of a vowel before a non-vowel, chosen by the
\* class of the first glyph of the transduced remainder, comes before the
\* whole output of the remainder.
C13_VowelGlyphFirst ==
    (AfterItem /\ IsRegularWord(split_inp[pos - 1])) =>
        \A k \in VowelBeforeOther(word.stem) :
            LET rest == tengwar_postfix(From(word.stem, k))
            IN  rest.exc = "" =>
                    tengwar_postfix(From(word.stem, k - 1)).val
                        = <<SeriesGlyph(word.stem[k], rest.val[1])>> \o rest.val

\* C13 amended: the glyph of a vowel before a non-vowel is the entry of the
\* vowel's series at the class of the first glyph of the transduced
\* remainder, and it is put right after that first glyph: the output is the
\* remainder's first glyph, the vowel's glyph, and the remainder's other
\* glyphs.
C13_VowelGlyphAfterFirst ==
    (AfterItem /\ IsRegularWord(split_inp[pos - 1])) =>
        \A k \in VowelBeforeOther(word.stem) :
            LET rest == tengwar_postfix(From(word.stem, k))
            IN  rest.exc = "" =>
                    /\ rest.val # <<>>
                    /\ rest.val[1] \in DOMAIN vowels_for_consonants
                    /\ tengwar_postfix(From(word.stem, k - 1)).val
                          = <<rest.val[1], SeriesGlyph(word.stem[k], rest.val[1])>>
                              \o Tail(rest.val)

\* "notes" is left with "not": the o takes the glyph of the class of "1",
\* the glyph of t, and stands after it.
C13_Witness ==
    /\ AfterItem /\ split_inp[pos - 1] = S("notes")
    /\ word.stem = S("not")
    /\ vowels_for_consonants["1"] # vowels_for_consonants["t"]
    /\ word.body = <<"5", "1", SeriesGlyph("o", "1")>>

\* The buffer of the last tengwar_word call as it was when the ending e was
\* looked for: after the step that detaches the s.
BeforeDetachE ==
    IF word.has_trailing_e THEN word.stem \o S("e") ELSE word.stem

IsVowelLetter(c) == c \in {"a", "e", "i", "o", "u", "y"}

AsciiToken(token) ==
    \A k \in DOMAIN token : AsciiLetter(token[k]) \/ token[k] \in Range(AsciiDigits)

\* The places of a buffer where a key of doubles starts.
DoubleStarts(buf) ==
    {k \in DOMAIN buf : \E d \in DOMAIN doubles : k \in Places(buf, doubles[d][1])}

\* The character at place k of the buffer has a mapping: it is no letter
\* (and takes the carrier), or it belongs to a double, or it is a vowel, a
\* key of consonants or "x".
HasMapping(buf, k) ==
    \/ ~char_isalpha(buf[k])
    \/ k \in DoubleStarts(buf) \/ (k - 1) \in DoubleStarts(buf)
    \/ buf[k] \in DOMAIN vowel_series \/ buf[k] \in DOMAIN consonants \/ buf[k] = "x"

\* The glyphs that tengwar_postfix can put first: of a consonant, of a
\* double, of "x", and the carrier.
FirstGlyphs ==
    {consonants[c] : c \in DOMAIN consonants}
        \cup {doubles[d][2][1] : d \in DOMAIN doubles} \cup {"z", GRAVE, carrier}

\* C15: a word token of ASCII letters and digits raises nothing: the buffer
\* handed to tengwar_postfix has no "c" and no "q", its markers T, H and C
\* stand only in "TH" and "Ch", which are keys of doubles, its R and Y are
\* keys of consonants, every character has a mapping, and every glyph that
\* indexes a vowel series is a key of vowels_for_consonants with a class in
\* 0..3.
C15_LookupsTotal ==
    [][(AtItem /\ AsciiToken(split_inp[pos]) /\ IsRegularWord(split_inp[pos])) =>
          LET buf == word'.stem
          IN  /\ word'.exc = "" /\ pc' = "tengwar_start" /\ history' = history
              /\ "c" \notin Range(buf) /\ "q" \notin Range(buf)
              /\ \A k \in DOMAIN buf :
                    /\ buf[k] \in {"T", "C"} =>
                          (k < Len(buf) /\ k \in DoubleStarts(buf)
                              /\ buf[k + 1] = (IF buf[k] = "T" THEN "H" ELSE "h"))
                    /\ buf[k] = "H" => (k > 1 /\ buf[k - 1] = "T")
                    /\ buf[k] \in {"R", "Y"} => buf[k] \in DOMAIN consonants
                    /\ HasMapping(buf, k)
              /\ \A g \in FirstGlyphs :
                    g \in DOMAIN vowels_for_consonants
                        /\ vowels_for_consonants[g] \in 0..3
              /\ \A k \in VowelBeforeOther(buf) :
                    tengwar_postfix(From(buf, k)).val[1] \in FirstGlyphs
              /\ \A v \in DOMAIN vowel_series : Len(vowel_series[v]) = 4]_vars

\* "change" has gone through with the markers of "Ch" and of the soft g.
C15_Witness ==
    /\ AfterItem /\ split_inp[pos - 1] = S("change")
    /\ word.stem = S("Chanj") /\ word.exc = "" /\ word.val # <<>>

\* The places of a word with a g that e, i or y follows.
SoftGPlaces(w) ==
    {k \in 1..(Len(w) - 1) : w[k] = "g" /\ w[k + 1] \in {"e", "i", "y"}}

\* C16: for an alphabetic token that is no key of the dictionary the word
\* that convert_to_black_speech adds has "gh" for each g that e, i or y
\* followed: no g of it stands before e, i or y, and it has a "gh" for
\* every such g of the token.
C16_SoftGRewritten ==
    [][(AtToken /\ isalpha(tokens[pos])
          /\ tokens[pos] \notin DOMAIN black_speech_dictionary) =>
          /\ Len(result') = Len(result) + 1
          /\ SoftGPlaces(result'[Len(result')]) = {}
          /\ Cardinality(Places(result'[Len(result')], S("gh")))
                >= Cardinality(SoftGPlaces(tokens[pos]))]_vars

====
